---- MODULE Spec2Model ----
(***************************************************************************)
(* Scrape-and-persist pipeline of the gold price scraper: the retry        *)
(* engine (utils/helpers.ts), the browser session manager and the          *)
(* multi-source flow (core/base-scraper.ts), and the single-source flow    *)
(* and the save flows of GoldPriceScraper.                                 *)
(*                                                                         *)
(* The program is one event-loop thread; pc is the position of the one     *)
(* invocation in flight.  Every external call that the code awaits         *)
(* (browser launch, page creation, navigation, element wait, close, store  *)
(* insert) resolves or rejects, chosen by the environment.                 *)
(* Prices are held in hundredths (2048.75 is 204875).                      *)
(***************************************************************************)
EXTENDS Integers, Sequences, FiniteSets, TLC

\* ---------------------------------------------------------------- bounds
MaxRetries == 2        \* largest retry budget (maxRetries / retryCount) explored
MaxCalls == 3          \* top-level invocations in one behaviour
MaxLaunches == 2       \* browser launches that can succeed in one behaviour
MaxDisconnects == 1
MaxPageSelectors == 2
MaxTicks == 2
MaxInFlight == 2    \* browser crashes in one behaviour
RandSteps == 2         \* Math.random() takes the values k / RandSteps, k < RandSteps
NumInvocations == 2    \* scrape invocations that overlap on one scraper instance

\* ------------------------------------------------------ program constants
RetryDelayMs == 2000
DefaultDelayMs == 1000
NumStrategies == 1
NavDelayMin == 1000
NavDelayMax == 3000
SourceDelayMs == 3000
Infinity == 1000000000

\* ------------------------------------------------------------ parsePrice
Digits == {"0", "1", "2", "3", "4", "5", "6", "7", "8", "9"}

DigitVal(c) ==
  CASE c = "0" -> 0 [] c = "1" -> 1 [] c = "2" -> 2 [] c = "3" -> 3
    [] c = "4" -> 4 [] c = "5" -> 5 [] c = "6" -> 6 [] c = "7" -> 7
    [] c = "8" -> 8 [] c = "9" -> 9

\* the characters removed by /[$,\s€£¥]/g
StripChars == {"$", ",", " ", "€", "£", "¥"}

RECURSIVE DigitPrefix(_)
DigitPrefix(s) ==
  IF s # <<>> /\ Head(s) \in Digits THEN <<Head(s)>> \o DigitPrefix(Tail(s)) ELSE <<>>

RECURSIVE DigitsValue(_, _)
DigitsValue(s, acc) ==
  IF s = <<>> THEN acc ELSE DigitsValue(Tail(s), acc * 10 + DigitVal(Head(s)))

Drop(s, n) == SubSeq(s, n + 1, Len(s))

IsPrefix(p, s) == Len(p) <= Len(s) /\ SubSeq(s, 1, Len(p)) = p

\* String.prototype.trim on a sequence of characters
RECURSIVE TrimLeft(_)
TrimLeft(s) == IF s # <<>> /\ Head(s) = " " THEN TrimLeft(Tail(s)) ELSE s

RECURSIVE TrimRight(_)
TrimRight(s) ==
  IF s # <<>> /\ s[Len(s)] = " " THEN TrimRight(SubSeq(s, 1, Len(s) - 1)) ELSE s

Trim(s) == TrimRight(TrimLeft(s))

\* parseFloat: optional sign, then "Infinity" or digits [. digits]; anything
\* after the longest such prefix is ignored; no digit at all gives NaN.
\* The result is in hundredths; the inputs carry at most two fraction digits.
ParseFloat(s) ==
  LET neg  == s # <<>> /\ Head(s) = "-"
      body == IF s # <<>> /\ Head(s) \in {"+", "-"} THEN Tail(s) ELSE s
      ip   == DigitPrefix(body)
      rest == Drop(body, Len(ip))
      fp   == IF rest # <<>> /\ Head(rest) = "." THEN DigitPrefix(Tail(rest)) ELSE <<>>
      fp2  == SubSeq(fp \o <<"0", "0">>, 1, 2)
      mag  == DigitsValue(ip, 0) * 100 + DigitsValue(fp2, 0)
  IN IF IsPrefix(<<"I", "n", "f", "i", "n", "i", "t", "y">>, body)
       THEN [nan |-> FALSE, val |-> IF neg THEN 0 - Infinity ELSE Infinity]
     ELSE IF ip = <<>> /\ fp = <<>>
       THEN [nan |-> TRUE, val |-> 0]
     ELSE [nan |-> FALSE, val |-> IF neg THEN 0 - mag ELSE mag]

parsePrice(priceText) ==
  IF priceText = <<>> THEN 0
  ELSE LET cleanText == SelectSeq(priceText, LAMBDA c : c \notin StripChars)
           price == ParseFloat(cleanText)
       IN IF price.nan THEN 0 ELSE price.val

\* the element texts a page can carry
PriceTexts ==
  { <<"$", "2", ",", "0", "4", "8", ".", "7", "5">>,
    <<" ", "2", ",", "0", "5", "0", ".", "1", "0", " ">>,
    <<"N", "/", "A">>,
    <<"0", ".", "0", "0">>,
    <<"-", "5">>,
    <<"I", "n", "f", "i", "n", "i", "t", "y">>,
    <<" ">>,
    <<>> }

\* ------------------------------------------------------------ randomDelay
\* Math.floor(Math.random() * (max - min + 1)) + min with Math.random() = k / RandSteps
randomDelay(min, max, k) == ((k * (max - min + 1)) \div RandSteps) + min

\* ------------------------------------------------------------------ state
VARIABLES
  pc,                 \* position of the invocation in flight, "idle" when none
  call,               \* the top-level operation in flight
  ncalls,             \* top-level invocations so far
  callResult,         \* what the last top-level operation gave its caller
  retryCount,         \* config.retryCount of the scraper instance
  multiSourceConfig,  \* this.multiSourceConfig
  browser,            \* this.browser: 0 is null, else the id of a launched browser
  context,            \* this.context: 0 is null, else the id of a created context
  browsers,           \* every browser launched: [open, connected]
  contexts,           \* every context created: [browser, open]
  ndisconnects,       \* browser crashes so far
  page,               \* the page held by the scrape attempt in flight
  pagesOpen,          \* pages created on which close() was not yet invoked
  lastCleanup,        \* what the cleanup() call that has just returned did
  cleanClosed,        \* a cleanup() returned without a close error and no launch since
  cleanupReturned,    \* a cleanup() returned and no launch since
  launchesSinceCleanup, \* launches since the last cleanup() call or disconnect
  pagesSinceCleanup,  \* a page was handed out since the last cleanup() call or disconnect
  cp,                 \* the createPage call in flight
  wr,                 \* the withRetry call in flight
  script,             \* behaviour of the operation given to a direct withRetry call
  opResult,           \* how the last invocation of the wrapped operation ended
  ps,                 \* the performScrape attempt in flight
  pm,                 \* the performMultiSourceScrape attempt in flight
  lastInsert,         \* the record of the last insertRecord call
  inserts,            \* insertRecord calls made by the top-level operation in flight
  inv,                \* the createPage calls of invocations that overlap on one instance
  fx,                 \* a page fixture and the selector search applied to it
  app                 \* the Application at start-up and its task scheduler

sessionVars == <<browser, context, browsers, contexts>>
ghostSessionVars ==
  <<lastCleanup, cleanClosed, cleanupReturned, launchesSinceCleanup, pagesSinceCleanup>>
pageVars == <<page, pagesOpen>>
flowVars == <<ps, pm>>
storeVars == <<lastInsert, inserts>>
configVars == <<retryCount, multiSourceConfig>>

vars == <<pc, call, ncalls, callResult, retryCount, multiSourceConfig,
          browser, context, browsers, contexts, ndisconnects, page, pagesOpen,
          lastCleanup, cleanClosed, cleanupReturned, launchesSinceCleanup,
          pagesSinceCleanup, cp, wr, script, opResult, ps, pm, lastInsert, inserts,
          inv, fx, app>>

\* ----------------------------------------------------------------- values
NoError == [kind |-> "none", attempt |-> 0]
Err(kind, attempt) == [kind |-> kind, attempt |-> attempt]

NoPrices == [f \in {} |-> 0]

\* a value an operation returns: tag "null", "generic", "single" or "multi"
NullValue == [tag |-> "null", v |-> "", price |-> 0, prices |-> NoPrices]
GenericValue(v) == [tag |-> "generic", v |-> v, price |-> 0, prices |-> NoPrices]
SingleValue(price) == [tag |-> "single", v |-> "", price |-> price, prices |-> NoPrices]
MultiValue(prices) == [tag |-> "multi", v |-> "", price |-> 0, prices |-> prices]

Values == {"v1", "v2"}

NoResult == [kind |-> "none", val |-> NullValue, err |-> NoError]
Returned(val) == [kind |-> "return", val |-> val, err |-> NoError]
Raised(err) == [kind |-> "raise", val |-> NullValue, err |-> err]

\* n counts the pages the attempt in flight has created
NoPage == [ctx |-> 0, state |-> "none", n |-> 0]

NoCleanup ==
  [called |-> FALSE, contextCloseCalled |-> FALSE, contextCloseThrew |-> FALSE,
   browserCloseCalled |-> FALSE, browserCloseThrew |-> FALSE,
   browserBefore |-> 0, afterClean |-> FALSE, afterReturn |-> FALSE,
   neverLaunched |-> FALSE, changed |-> FALSE, raised |-> FALSE]

NoCreatePage ==
  [active |-> FALSE, hadSession |-> FALSE, attempts |-> 0, launches |-> 0,
   cleanups |-> 0, site |-> 0, firstCtx |-> 0, retryCtx |-> 0,
   firstFailed |-> FALSE, retryFailed |-> FALSE, rebuilt |-> FALSE,
   ctxCount |-> 0, outcome |-> "none", error |-> "none", initCalls |-> 0,
   initFailed |-> 0, wasDisconnected |-> FALSE]

NoRetry ==
  [i |-> 0, maxRetries |-> 0, delayMs |-> 0, fn |-> "none", calls |-> 0,
   log |-> <<>>, events |-> <<>>, lastDelay |-> 0, navs |-> 0, outcome |-> NoResult]

NoScript == [failFirst |-> 0, always |-> FALSE, value |-> "v1"]

NoConfig == [set |-> FALSE, sources |-> <<>>, sequential |-> TRUE, delayBetweenSources |-> 0]

NoSingle ==
  [stage |-> "Idle", sel |-> 0, analysis |-> "none", found |-> FALSE, text |-> <<>>,
   price |-> 0, screenshots |-> 0, shotCalls |-> 0, navDelay |-> 0,
   pending |-> NoResult]

NoMulti ==
  [i |-> 0, prices |-> NoPrices, succeeded |-> {}, visited |-> <<>>, delays |-> <<>>,
   pages |-> <<>>, navDelay |-> 0, read |-> "none", allFailed |-> FALSE,
   pending |-> NoResult]

\* store is what the store client did with the insert, result what the
\* insert call gave its caller
NoRecord ==
  [kind |-> "none", price |-> 0, fields |-> NoPrices, created_at |-> FALSE,
   store |-> "none", result |-> NoResult]

BoolValue(b) ==
  [tag |-> "bool", v |-> IF b THEN "true" ELSE "false", price |-> 0, prices |-> NoPrices]

\* setupMultiSourceMode(): the three sources, in order
DefaultSources ==
  << [name |-> "NY gold", fieldName |-> "ny_price", currency |-> "USD"],
     [name |-> "XAU spot gold", fieldName |-> "xau_price", currency |-> "USD"],
     [name |-> "Shanghai gold", fieldName |-> "sh_price", currency |-> "CNY"] >>

DefaultConfig ==
  [set |-> TRUE, sources |-> DefaultSources, sequential |-> TRUE,
   delayBetweenSources |-> SourceDelayMs]

\* the delayMs values given to a direct withRetry call
DelayChoices == {1, DefaultDelayMs}

\* the invocations in flight on one instance, each inside its createPage call
Invocations == 1..NumInvocations

NoInvocation == [pc |-> "idle", site |-> 0, br |-> 0, target |-> 0, page |-> 0]

InitScraper ==
  /\ pc = "idle"
  /\ call = "none"
  /\ ncalls = 0
  /\ callResult = NoResult
  /\ retryCount \in 0..MaxRetries
  /\ multiSourceConfig = NoConfig
  /\ browser = 0
  /\ context = 0
  /\ browsers = <<>>
  /\ contexts = <<>>
  /\ ndisconnects = 0
  /\ page = NoPage
  /\ pagesOpen = 0
  /\ lastCleanup = NoCleanup
  /\ cleanClosed = FALSE
  /\ cleanupReturned = FALSE
  /\ launchesSinceCleanup = 0
  /\ pagesSinceCleanup = FALSE
  /\ cp = NoCreatePage
  /\ wr = NoRetry
  /\ script = NoScript
  /\ opResult = NoResult
  /\ ps = NoSingle
  /\ pm = NoMulti
  /\ lastInsert = NoRecord
  /\ inserts = 0
  /\ inv = [p \in Invocations |-> NoInvocation]

\* the scraper alone: no fixture is under search and no Application was built
\* no page fixture is under search
NoFixture ==
  [phase |-> "none", page |-> <<>>, k |-> 0, tried |-> <<>>, text |-> <<>>,
   selector |-> 0, currency |-> "", result |-> NoResult]

\* the task names of the scheduler: the one setupScheduledTasks registers and
\* one of any other caller of addTask
ScrapeTask == "gold-price-scraper"

TaskNames == {ScrapeTask, "other"}

\* an entry of TaskScheduler.tasks; immediateRuns and tickRuns count the
\* invocations of the task function of the registration
NoTask ==
  [present |-> FALSE, started |-> FALSE, immediate |-> "absent", immediateRuns |-> 0,
   tickRuns |-> 0, hasFailed |-> FALSE, ticksAfterFailure |-> 0]

\* no Application was built
NoApp ==
  [phase |-> "none", dbConnected |-> "unknown", exitCode |-> -1,
   tasks |-> [t \in TaskNames |-> NoTask], scrapeRuns |-> 0, ticks |-> 0,
   inflight |-> [t \in TaskNames |-> 0], escaped |-> 0, orphans |-> 0,
   replacedStarted |-> FALSE]

Init ==
  /\ InitScraper
  /\ fx = NoFixture
  /\ app = NoApp

\* ------------------------------------------------- browser session manager
\* variant: this.browser is not cleared after the browser is closed
CleanupEffect_KeepsBrowser(ctxThrows, brThrows) ==
  LET callCtx   == context # 0
      ctxFailed == callCtx /\ ctxThrows
      callBr    == ~ctxFailed /\ browser # 0
      brFailed  == callBr /\ brThrows
      ctxClosed == callCtx /\ ~ctxFailed
      brClosed  == callBr /\ ~brFailed
  IN [context  |-> IF ctxClosed THEN 0 ELSE context,
      browser  |-> browser,
      contexts |-> IF ctxClosed THEN [contexts EXCEPT ![context].open = FALSE] ELSE contexts,
      browsers |-> IF brClosed
                     THEN [browsers EXCEPT ![browser] = [open |-> FALSE, connected |-> FALSE]]
                     ELSE browsers,
      contextCloseCalled |-> callCtx,
      contextCloseThrew  |-> ctxFailed,
      browserCloseCalled |-> callBr,
      browserCloseThrew  |-> brFailed,
      raised |-> FALSE]

\* cleanup(): one try block around both closes, so a close that rejects skips
\* everything after it; the catch logs and returns.
CleanupEffect(ctxThrows, brThrows) ==
  LET callCtx   == context # 0
      ctxFailed == callCtx /\ ctxThrows
      callBr    == ~ctxFailed /\ browser # 0
      brFailed  == callBr /\ brThrows
      ctxClosed == callCtx /\ ~ctxFailed
      brClosed  == callBr /\ ~brFailed
  IN [context  |-> IF ctxClosed THEN 0 ELSE context,
      browser  |-> IF brClosed THEN 0 ELSE browser,
      contexts |-> IF ctxClosed THEN [contexts EXCEPT ![context].open = FALSE] ELSE contexts,
      browsers |-> IF brClosed
                     THEN [browsers EXCEPT ![browser] = [open |-> FALSE, connected |-> FALSE]]
                     ELSE browsers,
      contextCloseCalled |-> callCtx,
      contextCloseThrew  |-> ctxFailed,
      browserCloseCalled |-> callBr,
      browserCloseThrew  |-> brFailed,
      raised |-> FALSE]

\* a cleanup() call, from outside or from createPage
ApplyCleanup(ctxThrows, brThrows) ==
  LET e == CleanupEffect(ctxThrows, brThrows)
  IN /\ context' = e.context
     /\ browser' = e.browser
     /\ contexts' = e.contexts
     /\ browsers' = e.browsers
     /\ lastCleanup' =
          [called |-> TRUE,
           contextCloseCalled |-> e.contextCloseCalled,
           contextCloseThrew  |-> e.contextCloseThrew,
           browserCloseCalled |-> e.browserCloseCalled,
           browserCloseThrew  |-> e.browserCloseThrew,
           browserBefore |-> browser,
           afterClean |-> cleanClosed,
           afterReturn |-> cleanupReturned,
           neverLaunched |-> browsers = <<>>,
           changed |-> e.context # context \/ e.browser # browser,
           raised |-> e.raised]
     /\ cleanClosed' = (~e.contextCloseThrew /\ ~e.browserCloseThrew /\ ~e.raised)
     /\ cleanupReturned' = ~e.raised
     /\ launchesSinceCleanup' = 0
     /\ pagesSinceCleanup' = FALSE

\* the caller of the scraper calls cleanup()
Cleanup ==
  /\ pc = "idle"
  /\ ncalls < MaxCalls
  /\ \E ctxThrows \in BOOLEAN, brThrows \in BOOLEAN : ApplyCleanup(ctxThrows, brThrows)
  /\ ncalls' = ncalls + 1
  /\ call' = "cleanup"
  /\ callResult' = Returned(NullValue)
  /\ pc' = "done"
  /\ UNCHANGED <<inv, fx, app, configVars, ndisconnects, pageVars, cp, wr, script, opResult,
                 flowVars, storeVars>>

\* the browser process dies or loses its connection; the program looks at
\* isConnected() only at the start of createPage, so the crash is placed
\* between two invocations
Disconnect ==
  /\ pc = "idle"
  /\ browser # 0
  /\ browsers[browser].connected
  /\ ndisconnects < MaxDisconnects
  /\ ndisconnects' = ndisconnects + 1
  /\ browsers' = [browsers EXCEPT ![browser].connected = FALSE]
  /\ launchesSinceCleanup' = 0
  /\ pagesSinceCleanup' = FALSE
  /\ UNCHANGED <<inv, fx, app, pc, call, ncalls, callResult, configVars, browser, context, contexts,
                 pageVars, lastCleanup, cleanClosed, cleanupReturned, cp, wr, script,
                 opResult, flowVars, storeVars>>

\* this.browser?.isConnected() === false
ReportsDisconnected == browser # 0 /\ ~browsers[browser].connected

\* variant: only the missing context is looked at
SessionInvalid_ContextOnly == context = 0

\* !this.context || this.browser?.isConnected() === false
SessionInvalid ==
  context = 0 \/ (browser # 0 /\ ~browsers[browser].connected)

\* a context can give a page only while it is open and its browser is connected
ContextUsable(c) ==
  /\ c # 0
  /\ contexts[c].open
  /\ browsers[contexts[c].browser].open
  /\ browsers[contexts[c].browser].connected

\* createPage(), the session check
CreatePageEnter ==
  /\ pc = "cp_enter"
  /\ IF SessionInvalid
       THEN /\ \E ctxThrows \in BOOLEAN, brThrows \in BOOLEAN :
                 ApplyCleanup(ctxThrows, brThrows)
            /\ cp' = [NoCreatePage EXCEPT !.active = TRUE, !.cleanups = 1, !.site = 1,
                                         !.ctxCount = Len(contexts),
                                         !.wasDisconnected = ReportsDisconnected]
            /\ pc' = "cp_init"
       ELSE /\ cp' = [NoCreatePage EXCEPT !.active = TRUE, !.hadSession = TRUE,
                                         !.ctxCount = Len(contexts),
                                         !.wasDisconnected = ReportsDisconnected]
            /\ pc' = "cp_try"
            /\ UNCHANGED <<sessionVars, ghostSessionVars>>
  /\ UNCHANGED <<inv, fx, app, call, ncalls, callResult, configVars, ndisconnects, pageVars, wr, script,
                 opResult, flowVars, storeVars>>

\* variant: createPage launches again after initBrowser has thrown
AfterInitFailure_Relaunch == "cp_init"

\* initBrowser rethrows and createPage calls it outside any try block, so the
\* error leaves createPage
AfterInitFailure == "cp_exit"

\* initBrowser(): chromium.launch then browser.newContext; either may reject
InitBrowser ==
  /\ pc = "cp_init"
  /\ \E launchOk \in BOOLEAN, ctxOk \in BOOLEAN :
       IF launchOk /\ Len(browsers) < MaxLaunches
         THEN /\ browsers' = Append(browsers, [open |-> TRUE, connected |-> TRUE])
              /\ browser' = Len(browsers) + 1
              /\ launchesSinceCleanup' = launchesSinceCleanup + 1
              /\ cleanClosed' = FALSE
              /\ cleanupReturned' = FALSE
              /\ IF ctxOk
                   THEN /\ contexts' = Append(contexts, [browser |-> Len(browsers) + 1,
                                                         open |-> TRUE])
                        /\ context' = Len(contexts) + 1
                        /\ cp' = [cp EXCEPT !.launches = @ + 1,
                                            !.rebuilt = (cp.site = 2),
                                            !.initCalls = @ + 1]
                        /\ pc' = IF cp.site = 1 THEN "cp_try" ELSE "cp_retry"
                   ELSE /\ UNCHANGED <<contexts, context>>
                        /\ cp' = [cp EXCEPT !.launches = @ + 1, !.outcome = "raise",
                                            !.error = "newContext",
                                            !.initCalls = @ + 1,
                                            !.initFailed = cp.initCalls + 1]
                        /\ pc' = AfterInitFailure
         ELSE /\ cp' = [cp EXCEPT !.outcome = "raise", !.error = "launch",
                                  !.initCalls = @ + 1,
                                  !.initFailed = cp.initCalls + 1]
              /\ pc' = AfterInitFailure
              /\ UNCHANGED <<sessionVars, launchesSinceCleanup, cleanClosed, cleanupReturned>>
  /\ lastCleanup' = NoCleanup
  /\ UNCHANGED <<inv, fx, app, call, ncalls, callResult, configVars, ndisconnects, pageVars,
                 pagesSinceCleanup, wr, script, opResult, flowVars, storeVars>>

\* variant: a second page is created next to the one handed out
GivePage_Two ==
  /\ page' = [ctx |-> context, state |-> "open", n |-> page.n + 2]
  /\ pagesOpen' = pagesOpen + 2
  /\ pagesSinceCleanup' = TRUE

\* the page handed out by context.newPage(), with its timeouts and route set
GivePage ==
  /\ page' = [ctx |-> context, state |-> "open", n |-> page.n + 1]
  /\ pagesOpen' = pagesOpen + 1
  /\ pagesSinceCleanup' = TRUE

\* createPage(), the try block: page creation on the current context
CreatePageTry ==
  /\ pc = "cp_try"
  /\ \E ok \in BOOLEAN :
       IF ok /\ ContextUsable(context)
         THEN /\ GivePage
              /\ cp' = [cp EXCEPT !.attempts = @ + 1, !.firstCtx = context,
                                  !.outcome = "return"]
              /\ pc' = "cp_exit"
         ELSE /\ cp' = [cp EXCEPT !.attempts = @ + 1, !.firstCtx = context,
                                  !.firstFailed = TRUE]
              /\ pc' = "cp_catch"
              /\ UNCHANGED <<pageVars, pagesSinceCleanup>>
  /\ UNCHANGED <<inv, fx, app, call, ncalls, callResult, configVars, sessionVars, ndisconnects,
                 lastCleanup, cleanClosed, cleanupReturned, launchesSinceCleanup, wr,
                 script, opResult, flowVars, storeVars>>

\* createPage(), the catch block: cleanup() before initBrowser()
CreatePageCatch ==
  /\ pc = "cp_catch"
  /\ \E ctxThrows \in BOOLEAN, brThrows \in BOOLEAN : ApplyCleanup(ctxThrows, brThrows)
  /\ cp' = [cp EXCEPT !.cleanups = @ + 1, !.site = 2]
  /\ pc' = "cp_init"
  /\ UNCHANGED <<inv, fx, app, call, ncalls, callResult, configVars, ndisconnects, pageVars, wr, script,
                 opResult, flowVars, storeVars>>

\* variant: a failed retry goes round the catch block again
CreatePageRetry_Again ==
  /\ pc = "cp_retry"
  /\ \E ok \in BOOLEAN :
       IF ok /\ ContextUsable(context)
         THEN /\ GivePage
              /\ cp' = [cp EXCEPT !.attempts = @ + 1, !.retryCtx = context,
                                  !.outcome = "return"]
              /\ pc' = "cp_exit"
         ELSE /\ cp' = [cp EXCEPT !.attempts = @ + 1, !.retryCtx = context,
                                  !.retryFailed = TRUE]
              /\ pc' = "cp_catch"
              /\ UNCHANGED <<pageVars, pagesSinceCleanup>>
  /\ UNCHANGED <<inv, fx, app, call, ncalls, callResult, configVars, sessionVars, ndisconnects,
                 lastCleanup, cleanClosed, cleanupReturned, launchesSinceCleanup, wr,
                 script, opResult, flowVars, storeVars>>

\* createPage(), the catch block: the one retry of page creation
CreatePageRetry ==
  /\ pc = "cp_retry"
  /\ \E ok \in BOOLEAN :
       IF ok /\ ContextUsable(context)
         THEN /\ GivePage
              /\ cp' = [cp EXCEPT !.attempts = @ + 1, !.retryCtx = context,
                                  !.outcome = "return"]
         ELSE /\ cp' = [cp EXCEPT !.attempts = @ + 1, !.retryCtx = context,
                                  !.retryFailed = TRUE, !.outcome = "raise",
                                  !.error = "newPage"]
              /\ UNCHANGED <<pageVars, pagesSinceCleanup>>
  /\ pc' = "cp_exit"
  /\ UNCHANGED <<inv, fx, app, call, ncalls, callResult, configVars, sessionVars, ndisconnects,
                 lastCleanup, cleanClosed, cleanupReturned, launchesSinceCleanup, wr,
                 script, opResult, flowVars, storeVars>>


\* ------------------------------------------------------------ retry engine
\* variant: the loop has no upper end
LoopContinues_Always(i, maxRetries) == TRUE

\* for (let i = 0; i < maxRetries; i++)
LoopContinues(i, maxRetries) == i < maxRetries

\* variant: no attempt is taken for the last one
IsLastAttempt_Never(i, maxRetries) == FALSE

\* variant: gives up one attempt early
IsLastAttempt_Early(i, maxRetries) == i >= maxRetries - 2

\* variant: never sees the last attempt, so the loop runs out
IsLastAttempt_Late(i, maxRetries) == i = maxRetries

\* if (i === maxRetries - 1) throw error
IsLastAttempt(i, maxRetries) == i = maxRetries - 1

\* the error withRetry re-raises from its catch block
Rethrown(err) == err

NewRetry(fn, maxRetries, delayMs) ==
  [NoRetry EXCEPT !.fn = fn, !.maxRetries = maxRetries, !.delayMs = delayMs]

\* withRetry(fn, maxRetries, delayMs) called directly with a scripted operation
CallWithRetry ==
  /\ pc = "idle"
  /\ ncalls < MaxCalls
  /\ \E n \in -1..MaxRetries, d \in DelayChoices, v \in Values,
        sc \in {[failFirst |-> 0, always |-> TRUE]}
               \cup {[failFirst |-> k, always |-> FALSE] : k \in 0..MaxRetries} :
       /\ wr' = NewRetry("operation", n, d)
       /\ script' = [failFirst |-> sc.failFirst, always |-> sc.always, value |-> v]
  /\ ncalls' = ncalls + 1
  /\ call' = "withRetry"
  /\ pc' = "wr_loop"
  /\ UNCHANGED <<inv, fx, app, callResult, configVars, sessionVars, ndisconnects, pageVars,
                 ghostSessionVars, cp, opResult, flowVars, storeVars>>

\* variant: a delay before the first attempt too
DelayBeforeAttempt_Always(i) == TRUE

\* if (i > 0) await randomDelay(delayMs, delayMs * 2)
DelayBeforeAttempt(i) == i > 0

\* the head of the for loop
WithRetryLoop ==
  /\ pc = "wr_loop"
  /\ IF LoopContinues(wr.i, wr.maxRetries)
       THEN /\ pc' = IF DelayBeforeAttempt(wr.i) THEN "wr_delay" ELSE "wr_call"
            /\ wr' = wr
       ELSE /\ pc' = "wr_return"
            /\ wr' = [wr EXCEPT !.outcome = Returned(NullValue)]
  /\ UNCHANGED <<inv, fx, app, call, ncalls, callResult, configVars, sessionVars, ndisconnects, pageVars,
                 ghostSessionVars, cp, script, opResult, flowVars, storeVars>>

\* await randomDelay(delayMs, delayMs * 2)
WithRetryDelay ==
  /\ pc = "wr_delay"
  /\ \E k \in 0..(RandSteps - 1) :
       wr' = [wr EXCEPT !.lastDelay = randomDelay(wr.delayMs, wr.delayMs * 2, k),
                        !.events = Append(@, "delay")]
  /\ pc' = "wr_call"
  /\ UNCHANGED <<inv, fx, app, call, ncalls, callResult, configVars, sessionVars, ndisconnects, pageVars,
                 ghostSessionVars, cp, script, opResult, flowVars, storeVars>>

\* variant: the batch goes on from where the failed attempt stopped
NewBatch_Resume(old) == [NoMulti EXCEPT !.i = old.i, !.prices = old.prices,
                                        !.succeeded = old.succeeded]

\* const prices = {} and let i = 0 of performMultiSourceScrape: locals of the
\* invocation, so nothing of the attempt before is kept
NewBatch(old) == NoMulti

\* return await fn(): the operation starts
WithRetryCall ==
  /\ pc = "wr_call"
  /\ wr' = [wr EXCEPT !.calls = @ + 1, !.events = Append(@, "call")]
  /\ pc' = CASE wr.fn = "operation" -> "op_generic"
             [] wr.fn = "performScrape" -> "cp_enter"
             [] wr.fn = "performMultiSourceScrape" -> "pm_start"
  /\ ps' = NoSingle
  /\ pm' = NewBatch(pm)
  /\ page' = NoPage
  /\ opResult' = NoResult
  /\ UNCHANGED <<inv, fx, app, call, ncalls, callResult, configVars, sessionVars, ndisconnects, pagesOpen,
                 ghostSessionVars, cp, script, storeVars>>

\* an operation that throws on its first failFirst invocations (or always)
OpGeneric ==
  /\ pc = "op_generic"
  /\ opResult' = IF script.always \/ wr.calls <= script.failFirst
                   THEN Raised(Err("operation", wr.calls))
                   ELSE Returned(GenericValue(script.value))
  /\ pc' = "wr_settle"
  /\ UNCHANGED <<inv, fx, app, call, ncalls, callResult, configVars, sessionVars, ndisconnects, pageVars,
                 ghostSessionVars, cp, wr, script, flowVars, storeVars>>

\* the operation has returned or thrown: return its value, or the catch block
WithRetrySettle ==
  /\ pc = "wr_settle"
  /\ IF opResult.kind = "return"
       THEN /\ wr' = [wr EXCEPT !.log = Append(@, opResult), !.outcome = opResult]
            /\ pc' = "wr_return"
       ELSE IF IsLastAttempt(wr.i, wr.maxRetries)
         THEN /\ wr' = [wr EXCEPT !.log = Append(@, opResult),
                                  !.outcome = Raised(Rethrown(opResult.err))]
              /\ pc' = "wr_return"
         ELSE /\ wr' = [wr EXCEPT !.log = Append(@, opResult), !.i = @ + 1]
              /\ pc' = "wr_loop"
  /\ UNCHANGED <<inv, fx, app, call, ncalls, callResult, configVars, sessionVars, ndisconnects, pageVars,
                 ghostSessionVars, cp, script, opResult, flowVars, storeVars>>

\* a direct withRetry call hands its outcome to its caller
WithRetryReturn ==
  /\ pc = "wr_return"
  /\ call = "withRetry"
  /\ callResult' = wr.outcome
  /\ pc' = "done"
  /\ UNCHANGED <<inv, fx, app, call, ncalls, configVars, sessionVars, ndisconnects, pageVars,
                 ghostSessionVars, cp, wr, script, opResult, flowVars, storeVars>>

\* createPage() returns the page or raises into the scrape attempt that called
\* it; both attempts call it before their try block
CreatePageExit ==
  /\ pc = "cp_exit"
  /\ IF cp.outcome = "return"
       THEN /\ pc' = IF wr.fn = "performScrape" THEN "ps_navigate" ELSE "pm_loop"
            /\ opResult' = opResult
       ELSE /\ pc' = "wr_settle"
            /\ opResult' = Raised(Err(cp.error, wr.calls))
  /\ ps' = IF wr.fn = "performScrape"
             THEN [ps EXCEPT !.stage = IF cp.outcome = "return" THEN "PageOpened"
                                                                ELSE "Failed"]
             ELSE ps
  /\ cp' = NoCreatePage
  /\ UNCHANGED <<inv, fx, app, call, ncalls, callResult, configVars, sessionVars, ndisconnects, pageVars,
                 ghostSessionVars, wr, script, pm, storeVars>>

\* variant: the page is closed on the success path only
ClosePage_OnSuccessOnly ==
  IF ps.pending.kind = "raise" \/ pm.pending.kind = "raise"
    THEN UNCHANGED pageVars
    ELSE /\ page' = [page EXCEPT !.state = "closed"]
         /\ pagesOpen' = pagesOpen - 1

\* page.close() in a finally block
ClosePage ==
  /\ page' = [page EXCEPT !.state = "closed"]
  /\ pagesOpen' = pagesOpen - 1

\* ------------------------------------------------------ single-source flow
\* variant: lets a zero price through
GoldPriceInvalid_ZeroOk(price) == price < 0

\* if (price <= 0) throw, in performScrape
GoldPriceInvalid(price) == price <= 0

\* scrape() of the base class
CallScrapeAndSave ==
  /\ pc = "idle"
  /\ ncalls < MaxCalls
  /\ wr' = NewRetry("performScrape", retryCount, RetryDelayMs)
  /\ ncalls' = ncalls + 1
  /\ call' = "scrapeAndSave"
  /\ pc' = "wr_loop"
  /\ UNCHANGED <<inv, fx, app, callResult, configVars, sessionVars, ndisconnects, pageVars,
                 ghostSessionVars, cp, script, opResult, flowVars, storeVars>>

\* navigateToPageEnhanced(page, targetUrl): the headers, page.goto and the
\* log line; no pause follows the navigation, so navDelay stays 0
PsNavigate ==
  /\ pc = "ps_navigate"
  /\ \E ok \in BOOLEAN :
       IF ok
         THEN /\ ps' = [ps EXCEPT !.stage = "Navigated"]
              /\ pc' = "ps_analyze"
         ELSE /\ ps' = [ps EXCEPT !.stage = "NavigationFailed",
                                  !.pending = Raised(Err("navigation", wr.calls))]
              /\ pc' = "ps_catch"
  /\ UNCHANGED <<inv, fx, app, call, ncalls, callResult, configVars, sessionVars, ndisconnects, pageVars,
                 ghostSessionVars, cp, wr, script, opResult, pm, storeVars>>

\* variant: an analysis that failed ends the attempt
AfterAnalysis_Abort(a) == IF a = "failed" THEN "ps_catch" ELSE "ps_find"

\* performScrape goes on to findPriceElementSmart whatever the analysis logged
AfterAnalysis(a) == "ps_find"

\* analyzePageContent(page): logs only, its own errors are caught inside
PsAnalyze ==
  /\ pc = "ps_analyze"
  /\ \E a \in {"clean", "markers", "failed"} :
       /\ ps' = [ps EXCEPT !.stage = "AnalyzedContent", !.analysis = a, !.sel = 1]
       /\ pc' = AfterAnalysis(a)
  /\ UNCHANGED <<inv, fx, app, call, ncalls, callResult, configVars, sessionVars, ndisconnects, pageVars,
                 ghostSessionVars, cp, wr, script, opResult, pm, storeVars>>

\* findPriceElementSmart(page): one selector strategy per step; after the last
\* one the result is null, the first screenshot is taken and the error thrown
PsFind ==
  /\ pc = "ps_find"
  /\ IF ps.sel <= NumStrategies
       THEN \E present \in BOOLEAN, r \in PriceTexts :
              IF present /\ Trim(r) # <<>>
                THEN /\ ps' = [ps EXCEPT !.stage = "ElementFound", !.found = TRUE,
                                         !.text = Trim(r)]
                     /\ pc' = "ps_parse"
                ELSE /\ ps' = [ps EXCEPT !.sel = @ + 1]
                     /\ pc' = "ps_find"
       ELSE \E shot \in BOOLEAN :
              /\ ps' = [ps EXCEPT !.stage = "ElementMissing",
                                  !.screenshots = IF shot THEN @ + 1 ELSE @,
                                  !.shotCalls = @ + 1,
                                  !.pending = Raised(Err(IF shot THEN "noElement"
                                                                 ELSE "screenshot",
                                                         wr.calls))]
              /\ pc' = "ps_catch"
  /\ UNCHANGED <<inv, fx, app, call, ncalls, callResult, configVars, sessionVars, ndisconnects, pageVars,
                 ghostSessionVars, cp, wr, script, opResult, pm, storeVars>>

\* parsePrice(priceResult.text) and the price check
PsParse ==
  /\ pc = "ps_parse"
  /\ LET price == parsePrice(ps.text)
     IN IF GoldPriceInvalid(price)
          THEN /\ ps' = [ps EXCEPT !.stage = "ParseFailed", !.price = price,
                                   !.pending = Raised(Err("invalidPrice", wr.calls))]
               /\ pc' = "ps_catch"
          ELSE /\ ps' = [ps EXCEPT !.stage = "PriceParsed", !.price = price,
                                   !.pending = Returned(SingleValue(price))]
               /\ pc' = "ps_finally"
  /\ UNCHANGED <<inv, fx, app, call, ncalls, callResult, configVars, sessionVars, ndisconnects, pageVars,
                 ghostSessionVars, cp, wr, script, opResult, pm, storeVars>>

\* variant: the catch block rethrows without a screenshot
PsCatch_NoShot ==
  /\ pc = "ps_catch"
  /\ ps' = ps
  /\ pc' = "ps_finally"
  /\ UNCHANGED <<inv, fx, app, call, ncalls, callResult, configVars, sessionVars, ndisconnects, pageVars,
                 ghostSessionVars, cp, wr, script, opResult, pm, storeVars>>

\* the catch block: page.screenshot({fullPage: true}) (its own failure is
\* caught), then rethrow
PsCatch ==
  /\ pc = "ps_catch"
  /\ \E shot \in BOOLEAN :
       ps' = [ps EXCEPT !.screenshots = IF shot THEN @ + 1 ELSE @, !.shotCalls = @ + 1]
  /\ pc' = "ps_finally"
  /\ UNCHANGED <<inv, fx, app, call, ncalls, callResult, configVars, sessionVars, ndisconnects, pageVars,
                 ghostSessionVars, cp, wr, script, opResult, pm, storeVars>>

\* the finally block: page.close(), then the attempt returns or raises
PsFinally ==
  /\ pc = "ps_finally"
  /\ ClosePage
  /\ ps' = [ps EXCEPT !.stage = IF ps.pending.kind = "return" THEN "Done" ELSE "Failed"]
  /\ opResult' = ps.pending
  /\ pc' = "wr_settle"
  /\ UNCHANGED <<inv, fx, app, call, ncalls, callResult, configVars, sessionVars, ndisconnects,
                 ghostSessionVars, cp, wr, script, pm, storeVars>>

\* client.from(table).insert(...): the store takes the rows, reports an
\* error, or the client call throws
StoreOutcomes == {"ok", "error", "throw"}

\* the try block of insertRecord and of insertBatchRecords:
\* if (error) return false; ... return true
InsertTry(store) ==
  IF store = "throw" THEN Raised(Err("store", 0)) ELSE Returned(BoolValue(store = "ok"))

\* variant: the exception of the client call is passed on
InsertCatch_Rethrow(r) == r

\* their catch block: log and return false
InsertCatch(r) == IF r.kind = "raise" THEN Returned(BoolValue(FALSE)) ELSE r

\* variant: an insert the store did not take is sent once more
InsertCalls_RetryFailed(store) == IF store = "ok" THEN 1 ELSE 2

\* insertRecord awaits client.from(table).insert([record]) once
InsertCalls(store) == 1

\* insertRecord(record), and what saveToDatabase and saveMultiPriceToDatabase
\* hand on to scrapeAndSave and scrapeMultiSourceAndSave
InsertRecord(record, store) ==
  LET result == InsertCatch(InsertTry(store))
  IN /\ lastInsert' = [record EXCEPT !.store = store, !.result = result]
     /\ inserts' = inserts + InsertCalls(store)
     /\ callResult' = IF result.kind = "raise" \/ result = Returned(BoolValue(FALSE))
                        THEN Returned(BoolValue(FALSE))
                        ELSE Returned(BoolValue(TRUE))

\* insertBatchRecords(records), called when a backup is restored
CallInsertBatchRecords ==
  /\ pc = "idle"
  /\ ncalls < MaxCalls
  /\ \E store \in StoreOutcomes :
       LET result == InsertCatch(InsertTry(store))
       IN /\ lastInsert' = [NoRecord EXCEPT !.kind = "batch", !.store = store,
                                            !.result = result]
          /\ callResult' = result
  /\ inserts' = inserts + 1
  /\ ncalls' = ncalls + 1
  /\ call' = "insertBatchRecords"
  /\ pc' = "done"
  /\ UNCHANGED <<inv, fx, app, configVars, sessionVars, ndisconnects, pageVars, ghostSessionVars, cp,
                 wr, script, opResult, flowVars>>

\* the record saveToDatabase builds
SingleRecord(data) ==
  [kind |-> "single", price |-> data.price, fields |-> [f \in {"ny_price"} |-> data.price],
   created_at |-> TRUE, store |-> "none", result |-> NoResult]

\* if (!data) return false: what scrapeAndSave and scrapeMultiSourceAndSave
\* report for a scrape that failed
FailedScrapeReport == Returned(BoolValue(FALSE))

\* scrapeAndSave() after scrape() has ended
ScrapeAndSaveFinish ==
  /\ pc = "wr_return"
  /\ call = "scrapeAndSave"
  /\ IF wr.outcome.kind = "raise" \/ wr.outcome.val.tag = "null"
       THEN /\ callResult' = FailedScrapeReport
            /\ UNCHANGED storeVars
       ELSE \E store \in StoreOutcomes : InsertRecord(SingleRecord(wr.outcome.val), store)
  /\ pc' = "done"
  /\ UNCHANGED <<inv, fx, app, call, ncalls, configVars, sessionVars, ndisconnects, pageVars,
                 ghostSessionVars, cp, wr, script, opResult, flowVars>>


\* ------------------------------------------------------- multi-source flow
\* if (price <= 0) throw, in scrapeFromSingleSource
SourcePriceInvalid(price) == price <= 0

\* variant: the empty batch is not detected
NoSourceSucceeded_Never(prices) == FALSE

\* Object.keys(prices).length === 0
NoSourceSucceeded(prices) == DOMAIN prices = {}

\* prices[source.fieldName] = priceData
SetPrice(prices, fieldName, price) ==
  [f \in DOMAIN prices \cup {fieldName} |-> IF f = fieldName THEN price ELSE prices[f]]

\* variant: the source after a failed one is skipped
AfterFailedSource_Skip(i) == i + 2

\* variant: a failed source ends the loop
AfterFailedSource_Abort(i) == Len(multiSourceConfig.sources)

\* what the catch inside the loop does with a failed source: the loop goes on
AfterFailedSource(i) == i + 1

setupMultiSourceMode ==
  /\ pc = "idle"
  /\ multiSourceConfig' = DefaultConfig
  /\ UNCHANGED <<inv, fx, app, pc, call, ncalls, callResult, retryCount, sessionVars, ndisconnects,
                 pageVars, ghostSessionVars, cp, wr, script, opResult, flowVars, storeVars>>

\* scrapeMultiSourceAndSave(): configures the default sources when none are
\* configured, then scrapeMultiSource() enters the retry engine
CallScrapeMultiSourceAndSave ==
  /\ pc = "idle"
  /\ ncalls < MaxCalls
  /\ multiSourceConfig' = IF multiSourceConfig.set THEN multiSourceConfig ELSE DefaultConfig
  /\ wr' = NewRetry("performMultiSourceScrape", retryCount, RetryDelayMs)
  /\ ncalls' = ncalls + 1
  /\ call' = "scrapeMultiSourceAndSave"
  /\ pc' = "wr_loop"
  /\ UNCHANGED <<inv, fx, app, callResult, retryCount, sessionVars, ndisconnects, pageVars,
                 ghostSessionVars, cp, script, opResult, flowVars, storeVars>>

\* performMultiSourceScrape(): the configuration check before createPage()
PmStart ==
  /\ pc = "pm_start"
  /\ IF multiSourceConfig.set
       THEN /\ pc' = "cp_enter"
            /\ opResult' = opResult
       ELSE /\ pc' = "wr_settle"
            /\ opResult' = Raised(Err("notConfigured", wr.calls))
  /\ UNCHANGED <<inv, fx, app, call, ncalls, callResult, configVars, sessionVars, ndisconnects, pageVars,
                 ghostSessionVars, cp, wr, script, flowVars, storeVars>>

\* the head of the loop over the sources; the parallel branch only logs
PmLoop ==
  /\ pc = "pm_loop"
  /\ pc' = IF multiSourceConfig.sequential /\ pm.i < Len(multiSourceConfig.sources)
             THEN "pm_navigate" ELSE "pm_after"
  /\ UNCHANGED <<inv, fx, app, call, ncalls, callResult, configVars, sessionVars, ndisconnects, pageVars,
                 ghostSessionVars, cp, wr, script, opResult, flowVars, storeVars>>

\* scrapeFromSingleSource: navigateToPage(page, source.url) on the page of
\* the batch, and its random delay
PmNavigate ==
  /\ pc = "pm_navigate"
  /\ \E ok \in BOOLEAN, k \in 0..(RandSteps - 1) :
       IF ok
         THEN /\ pm' = [pm EXCEPT !.visited = Append(@, pm.i + 1),
                                  !.pages = Append(@, page.n),
                                  !.navDelay = randomDelay(NavDelayMin, NavDelayMax, k)]
              /\ pc' = "pm_extract"
         ELSE /\ pm' = [pm EXCEPT !.visited = Append(@, pm.i + 1),
                                  !.pages = Append(@, page.n),
                                  !.i = AfterFailedSource(pm.i)]
              /\ pc' = "pm_loop"
  /\ wr' = [wr EXCEPT !.navs = @ + 1]
  /\ UNCHANGED <<inv, fx, app, call, ncalls, callResult, configVars, sessionVars, ndisconnects, pageVars,
                 ghostSessionVars, cp, script, opResult, ps, storeVars>>

\* getElementText(page, selector): waitForSelector and page.$ throw or give
\* null when the element is absent, and the catch block logs and rethrows;
\* with the element there, text?.trim() || ""
getElementText(present, r) ==
  IF present
    THEN [kind |-> "return", text |-> Trim(r)]
    ELSE [kind |-> "raise", text |-> <<>>]

\* scrapeFromSingleSource: getElementText, parsePrice and the price check; on
\* success the price is stored and the inter-source delay is awaited
PmExtract ==
  /\ pc = "pm_extract"
  /\ \E present \in BOOLEAN, r \in PriceTexts :
       LET source == multiSourceConfig.sources[pm.i + 1]
           read == getElementText(present, r)
           priceText == read.text
           price == parsePrice(priceText)
           last == ~(pm.i < Len(multiSourceConfig.sources) - 1)
       IN IF read.kind = "return" /\ priceText # <<>> /\ ~SourcePriceInvalid(price)
            THEN pm' = [pm EXCEPT !.prices = SetPrice(@, source.fieldName, price),
                                  !.succeeded = @ \cup {pm.i + 1},
                                  !.delays = IF ~last /\ multiSourceConfig.delayBetweenSources # 0
                                               THEN Append(@, pm.i + 1) ELSE @,
                                  !.read = read.kind,
                                  !.i = @ + 1]
            ELSE pm' = [pm EXCEPT !.read = read.kind, !.i = AfterFailedSource(pm.i)]
  /\ pc' = "pm_loop"
  /\ UNCHANGED <<inv, fx, app, call, ncalls, callResult, configVars, sessionVars, ndisconnects, pageVars,
                 ghostSessionVars, cp, wr, script, opResult, ps, storeVars>>

\* after the loop: all sources failed, or the observation is assembled
PmAfter ==
  /\ pc = "pm_after"
  /\ IF NoSourceSucceeded(pm.prices)
       THEN pm' = [pm EXCEPT !.allFailed = TRUE,
                             !.pending = Raised(Err("allSourcesFailed", wr.calls))]
       ELSE pm' = [pm EXCEPT !.pending = Returned(MultiValue(pm.prices))]
  /\ pc' = "pm_finally"
  /\ UNCHANGED <<inv, fx, app, call, ncalls, callResult, configVars, sessionVars, ndisconnects, pageVars,
                 ghostSessionVars, cp, wr, script, opResult, ps, storeVars>>

\* the finally block: page.close(), then the batch returns or raises
PmFinally ==
  /\ pc = "pm_finally"
  /\ ClosePage
  /\ opResult' = pm.pending
  /\ pc' = "wr_settle"
  /\ UNCHANGED <<inv, fx, app, call, ncalls, callResult, configVars, sessionVars, ndisconnects,
                 ghostSessionVars, cp, wr, script, flowVars, storeVars>>

\* the record saveMultiPriceToDatabase builds; reading data.prices.ny_price.price
\* throws when the ny_price source gave nothing
MultiRecord(data) ==
  [kind |-> "multi", price |-> data.prices["ny_price"], fields |-> data.prices,
   created_at |-> TRUE, store |-> "none", result |-> NoResult]

\* variant: the error of building the record is passed on
RecordBuildFailure_Raise == Raised(Err("record", 0))

\* data.prices.ny_price.price throws when ny_price is missing; the catch of
\* saveMultiPriceToDatabase logs and returns false
RecordBuildFailure == Returned(BoolValue(FALSE))

\* scrapeMultiSourceAndSave() after scrapeMultiSource() has ended
ScrapeMultiSourceAndSaveFinish ==
  /\ pc = "wr_return"
  /\ call = "scrapeMultiSourceAndSave"
  /\ IF wr.outcome.kind = "raise" \/ wr.outcome.val.tag = "null"
       THEN /\ callResult' = FailedScrapeReport
            /\ UNCHANGED storeVars
       ELSE IF "ny_price" \notin DOMAIN wr.outcome.val.prices
       THEN /\ callResult' = RecordBuildFailure
            /\ UNCHANGED storeVars
       ELSE \E store \in StoreOutcomes : InsertRecord(MultiRecord(wr.outcome.val), store)
  /\ pc' = "done"
  /\ UNCHANGED <<inv, fx, app, call, ncalls, configVars, sessionVars, ndisconnects, pageVars,
                 ghostSessionVars, cp, wr, script, opResult, flowVars>>

\* the top-level operation has given its result to its caller; nothing of the
\* finished invocation is kept but the session
Return ==
  /\ pc = "done"
  /\ pc' = "idle"
  /\ call' = "none"
  /\ callResult' = NoResult
  /\ lastCleanup' = NoCleanup
  /\ wr' = NoRetry
  /\ script' = NoScript
  /\ opResult' = NoResult
  /\ ps' = NoSingle
  /\ pm' = NoMulti
  /\ page' = NoPage
  /\ lastInsert' = NoRecord
  /\ inserts' = 0
  /\ UNCHANGED <<inv, fx, app, ncalls, configVars, sessionVars, ndisconnects, pagesOpen, cleanClosed,
                 cleanupReturned, launchesSinceCleanup, pagesSinceCleanup, cp>>

\* --------------------------------------- invocations that overlap in time
\* Several scrape invocations run on the same scraper instance (two requests
\* to POST /api/gold/scrape, or the immediate run and a cron tick): each is
\* an async call chain, and the event loop switches between them at an await
\* only, so a step runs from one await to the next.  The session fields are
\* the shared ones; an invocation is followed through createPage(), the use
\* of its page and page.close().  Launches and closes succeed here and only
\* page creation can fail, so one invocation alone keeps a single session.
sequentialVars ==
  <<pc, call, ncalls, callResult, retryCount, multiSourceConfig, ndisconnects, page,
    pagesOpen, lastCleanup, cleanClosed, cleanupReturned, launchesSinceCleanup,
    pagesSinceCleanup, cp, wr, script, opResult, ps, pm, lastInsert, inserts, fx, app>>

\* cleanup() followed by initBrowser(), run up to their first await: the
\* close of the context, else the close of the browser, else the launch;
\* ctx and br are the values of this.context and this.browser at that time
StartCleanup(p, site, ctx, br) ==
  [inv EXCEPT ![p].site = site,
              ![p].pc = IF ctx # 0 THEN "cl_ctx" ELSE IF br # 0 THEN "cl_br" ELSE "launch",
              ![p].target = IF ctx # 0 THEN ctx ELSE br]

\* createPage(): the session check, then cleanup() or context.newPage()
ConcEnter(p) ==
  /\ inv[p].pc = "idle"
  /\ inv' = IF SessionInvalid
              THEN StartCleanup(p, 1, context, browser)
              ELSE [inv EXCEPT ![p].pc = "newpage", ![p].site = 1, ![p].target = context]
  /\ UNCHANGED <<sessionVars, sequentialVars>>

\* cleanup(): context.close() has resolved; this.context = null; then
\* browser.close() is called if this.browser is set
ConcCleanupContext(p) ==
  /\ inv[p].pc = "cl_ctx"
  /\ contexts' = [contexts EXCEPT ![inv[p].target].open = FALSE]
  /\ context' = 0
  /\ inv' = StartCleanup(p, inv[p].site, 0, browser)
  /\ UNCHANGED <<browser, browsers, sequentialVars>>

\* cleanup(): browser.close() has resolved; this.browser = null; cleanup()
\* returns and initBrowser() calls chromium.launch()
ConcCleanupBrowser(p) ==
  /\ inv[p].pc = "cl_br"
  /\ browsers' = [browsers EXCEPT ![inv[p].target] = [open |-> FALSE, connected |-> FALSE]]
  /\ browser' = 0
  /\ inv' = [inv EXCEPT ![p].pc = "launch", ![p].target = 0]
  /\ UNCHANGED <<context, contexts, sequentialVars>>

\* initBrowser(): chromium.launch() has resolved; this.browser is assigned
\* and newContext() is called on it; past MaxLaunches the launch rejects
ConcLaunch(p) ==
  /\ inv[p].pc = "launch"
  /\ IF Len(browsers) < MaxLaunches
       THEN /\ browsers' = Append(browsers, [open |-> TRUE, connected |-> TRUE])
            /\ browser' = Len(browsers) + 1
            /\ inv' = [inv EXCEPT ![p].pc = "newctx", ![p].br = Len(browsers) + 1]
       ELSE /\ inv' = [inv EXCEPT ![p].pc = "failed"]
            /\ UNCHANGED <<browser, browsers>>
  /\ UNCHANGED <<context, contexts, sequentialVars>>

\* initBrowser(): newContext() has resolved or, on a browser closed in the
\* meantime, rejected; this.context is assigned and createPage() calls
\* newPage() on it
ConcNewContext(p) ==
  /\ inv[p].pc = "newctx"
  /\ IF browsers[inv[p].br].open
       THEN /\ contexts' = Append(contexts, [browser |-> inv[p].br, open |-> TRUE])
            /\ context' = Len(contexts) + 1
            /\ inv' = [inv EXCEPT ![p].pc = IF inv[p].site = 1 THEN "newpage"
                                                               ELSE "retrypage",
                                  ![p].target = Len(contexts) + 1]
       ELSE /\ inv' = [inv EXCEPT ![p].pc = "failed"]
            /\ UNCHANGED <<context, contexts>>
  /\ UNCHANGED <<browser, browsers, sequentialVars>>

\* createPage(), the try block: newPage() has resolved, or rejected and the
\* catch block calls cleanup()
ConcNewPage(p) ==
  /\ inv[p].pc = "newpage"
  /\ \E ok \in BOOLEAN :
       IF ok /\ ContextUsable(inv[p].target)
         THEN inv' = [inv EXCEPT ![p].pc = "use", ![p].page = inv[p].target]
         ELSE inv' = StartCleanup(p, 2, context, browser)
  /\ UNCHANGED <<sessionVars, sequentialVars>>

\* createPage(), the catch block: the one retry of page creation has
\* resolved or rejected
ConcRetryPage(p) ==
  /\ inv[p].pc = "retrypage"
  /\ \E ok \in BOOLEAN :
       IF ok /\ ContextUsable(inv[p].target)
         THEN inv' = [inv EXCEPT ![p].pc = "use", ![p].page = inv[p].target]
         ELSE inv' = [inv EXCEPT ![p].pc = "failed"]
  /\ UNCHANGED <<sessionVars, sequentialVars>>

\* the scrape attempt navigates and extracts on its page
ConcUsePage(p) ==
  /\ inv[p].pc = "use"
  /\ inv' = [inv EXCEPT ![p].pc = "close"]
  /\ UNCHANGED <<sessionVars, sequentialVars>>

\* page.close() in the finally block of the attempt
ConcClosePage(p) ==
  /\ inv[p].pc = "close"
  /\ inv' = [inv EXCEPT ![p].pc = "finished", ![p].page = 0]
  /\ UNCHANGED <<sessionVars, sequentialVars>>

InitConc ==
  /\ Init
  /\ retryCount = 1

NextConc ==
  \E p \in Invocations :
    \/ ConcEnter(p)
    \/ ConcCleanupContext(p)
    \/ ConcCleanupBrowser(p)
    \/ ConcLaunch(p)
    \/ ConcNewContext(p)
    \/ ConcNewPage(p)
    \/ ConcRetryPage(p)
    \/ ConcUsePage(p)
    \/ ConcClosePage(p)

SpecConc == InitConc /\ [][NextConc]_vars

\* ------------------------------------------- multi-source configurations
\* setMultiSourceConfig() takes any source list and either mode, and
\* scrapeMultiSource() is public: the base class is followed here under the
\* configurations a subclass can give it, not only the one of
\* setupMultiSourceMode().
DefaultSourceDelayMs == 2000

\* the arguments given to setMultiSourceConfig: a source list, and the
\* sequential flag present or not
ConfigChoices ==
  [sources : {<<>>, DefaultSources}, sequential : {"absent", "true", "false"}]

\* { sequential: true, delayBetweenSources: 2000, ...multiSourceConfig }
setMultiSourceConfig(cfg) ==
  [set |-> TRUE,
   sources |-> cfg.sources,
   sequential |-> IF cfg.sequential = "absent" THEN TRUE ELSE cfg.sequential = "true",
   delayBetweenSources |-> DefaultSourceDelayMs]

\* a subclass configures its sources
CallSetMultiSourceConfig ==
  /\ pc = "idle"
  /\ \E cfg \in ConfigChoices : multiSourceConfig' = setMultiSourceConfig(cfg)
  /\ UNCHANGED <<inv, fx, app, pc, call, ncalls, callResult, retryCount, sessionVars, ndisconnects,
                 pageVars, ghostSessionVars, cp, wr, script, opResult, flowVars, storeVars>>

\* scrapeMultiSource(): throws when nothing is configured, else enters the
\* retry engine
CallScrapeMultiSource ==
  /\ pc = "idle"
  /\ ncalls < MaxCalls
  /\ ncalls' = ncalls + 1
  /\ call' = "scrapeMultiSource"
  /\ IF multiSourceConfig.set
       THEN /\ wr' = NewRetry("performMultiSourceScrape", retryCount, RetryDelayMs)
            /\ pc' = "wr_loop"
            /\ UNCHANGED callResult
       ELSE /\ callResult' = Raised(Err("notConfigured", 0))
            /\ pc' = "done"
            /\ UNCHANGED wr
  /\ UNCHANGED <<inv, fx, app, configVars, sessionVars, ndisconnects, pageVars, ghostSessionVars, cp,
                 script, opResult, flowVars, storeVars>>

\* scrapeMultiSource() hands the outcome of withRetry to its caller
ScrapeMultiSourceReturn ==
  /\ pc = "wr_return"
  /\ call = "scrapeMultiSource"
  /\ callResult' = wr.outcome
  /\ pc' = "done"
  /\ UNCHANGED <<inv, fx, app, call, ncalls, configVars, sessionVars, ndisconnects, pageVars,
                 ghostSessionVars, cp, wr, script, opResult, flowVars, storeVars>>

InitCfg ==
  /\ Init
  /\ retryCount = MaxRetries

NextCfg ==
  \/ CallSetMultiSourceConfig
  \/ CallScrapeMultiSource
  \/ ScrapeMultiSourceReturn
  \/ WithRetryLoop
  \/ WithRetryDelay
  \/ WithRetryCall
  \/ WithRetrySettle
  \/ PmStart
  \/ CreatePageEnter
  \/ InitBrowser
  \/ CreatePageTry
  \/ CreatePageCatch
  \/ CreatePageRetry
  \/ CreatePageExit
  \/ PmLoop
  \/ PmNavigate
  \/ PmExtract
  \/ PmAfter
  \/ PmFinally
  \/ Return

SpecCfg == InitCfg /\ [][NextCfg]_vars

\* ----------------------------------------------------------- specification
Next ==
  \/ Cleanup
  \/ Disconnect
  \/ CreatePageEnter
  \/ InitBrowser
  \/ CreatePageTry
  \/ CreatePageCatch
  \/ CreatePageRetry
  \/ CreatePageExit
  \/ CallWithRetry
  \/ WithRetryLoop
  \/ WithRetryDelay
  \/ WithRetryCall
  \/ OpGeneric
  \/ WithRetrySettle
  \/ WithRetryReturn
  \/ CallScrapeAndSave
  \/ PsNavigate
  \/ PsAnalyze
  \/ PsFind
  \/ PsParse
  \/ PsCatch
  \/ PsFinally
  \/ ScrapeAndSaveFinish
  \/ setupMultiSourceMode
  \/ CallScrapeMultiSourceAndSave
  \/ PmStart
  \/ PmLoop
  \/ PmNavigate
  \/ PmExtract
  \/ PmAfter
  \/ PmFinally
  \/ ScrapeMultiSourceAndSaveFinish
  \/ CallInsertBatchRecords
  \/ Return

Spec == Init /\ [][Next]_vars

TypeOK ==
  /\ pc \in {"idle", "done", "cp_enter", "cp_init", "cp_try", "cp_catch", "cp_retry", "cp_exit",
             "wr_loop", "wr_delay", "wr_call", "wr_settle", "wr_return", "op_generic",
             "ps_navigate", "ps_analyze", "ps_find", "ps_parse", "ps_catch", "ps_finally",
             "pm_start", "pm_loop", "pm_navigate", "pm_extract", "pm_after", "pm_finally"}
  /\ ncalls \in 0..MaxCalls
  /\ browser \in 0..Len(browsers)
  /\ context \in 0..Len(contexts)
  /\ pagesOpen \in 0..1

\* ------------------------------------------------------------- properties
RetryEnded == pc \in {"wr_return", "done"} /\ wr.fn # "none"

\* C1: an operation that throws on its first k invocations and returns v on
\* invocation k+1, retried with maxAttempts > k, makes withRetry return v after
\* exactly k+1 invocations; for any operation, no invocation follows the first
\* success and the value returned is the value of that success.
C1_RetryReturnsFirstSuccess ==
  /\ (RetryEnded /\ wr.fn = "operation" /\ ~script.always
        /\ wr.maxRetries > script.failFirst)
       => /\ wr.outcome = Returned(GenericValue(script.value))
          /\ wr.calls = script.failFirst + 1
  /\ \A j \in 1..Len(wr.log) :
       wr.log[j].kind = "return"
         => /\ j = Len(wr.log)
            /\ wr.calls = j
            /\ wr.outcome = wr.log[j]

C1_Witness ==
  /\ pc = "done"
  /\ call = "withRetry"
  /\ ~script.always
  /\ script.failFirst = 1
  /\ wr.calls = 2
  /\ callResult = Returned(GenericValue(script.value))

\* C2: an operation that throws on every invocation, retried with
\* maxAttempts = n >= 1, is invoked exactly n times and withRetry then raises
\* the error thrown by the n-th invocation.
C2_RetryExhaustedRaisesLast ==
  (RetryEnded /\ wr.maxRetries >= 1
     /\ \A j \in 1..Len(wr.log) : wr.log[j].kind = "raise")
    => /\ wr.calls = wr.maxRetries
       /\ Len(wr.log) = wr.maxRetries
       /\ wr.outcome = Raised(wr.log[wr.maxRetries].err)
       /\ wr.outcome.err.attempt = wr.maxRetries

C2_Witness ==
  /\ pc = "done"
  /\ call = "withRetry"
  /\ script.always
  /\ wr.maxRetries = 2
  /\ wr.calls = 2
  /\ callResult = Raised(Err("operation", 2))

\* C3: every record handed to insertRecord carries a price above 0, in its
\* price column and in every per-source column, and a single-source attempt
\* whose parsed price is <= 0 ends as a failed attempt.
C3_InsertedPricePositive ==
  /\ lastInsert.kind \in {"single", "multi"}
       => /\ lastInsert.price > 0
          /\ \A f \in DOMAIN lastInsert.fields : lastInsert.fields[f] > 0
  /\ (ps.stage \in {"PriceParsed", "ParseFailed", "Done", "Failed"} /\ ps.found
        /\ parsePrice(ps.text) <= 0)
       => /\ ps.pending.kind = "raise"
          /\ ps.stage # "Done"

C3_Witness ==
  /\ pc = "done"
  /\ call = "scrapeAndSave"
  /\ inserts = 1
  /\ lastInsert.price > 0
  /\ \E j \in 1..Len(wr.log) : wr.log[j].err.kind = "invalidPrice"

\* C4: a batch attempt in which no source succeeded raises the 'all sources
\* failed' error and no observation with an empty prices map is returned; when
\* every attempt of a scrapeMultiSource call ends so, the call raises and
\* scrapeMultiSourceAndSave makes no insert call.
C4_AllSourcesFailedRaises ==
  /\ (pc = "pm_finally" /\ pm.succeeded = {})
       => pm.pending = Raised(Err("allSourcesFailed", wr.calls))
  /\ (opResult.kind = "return" /\ opResult.val.tag = "multi")
       => DOMAIN opResult.val.prices # {}
  /\ (pc = "done" /\ call = "scrapeMultiSourceAndSave" /\ Len(wr.log) >= 1
        /\ \A j \in 1..Len(wr.log) : wr.log[j].err.kind = "allSourcesFailed")
       => /\ wr.outcome.kind = "raise"
          /\ wr.outcome.err.kind = "allSourcesFailed"
          /\ inserts = 0
          /\ callResult = Returned(BoolValue(FALSE))

C4_Witness ==
  /\ pc = "done"
  /\ call = "scrapeMultiSourceAndSave"
  /\ Len(wr.log) = 2
  /\ \A j \in 1..Len(wr.log) : wr.log[j].err.kind = "allSourcesFailed"
  /\ inserts = 0

C6_PageClosedOnEveryExit ==
  pc \in {"wr_settle", "wr_loop", "wr_delay", "wr_call", "wr_return", "done", "idle"}
    => /\ pagesOpen = 0
       /\ page.state # "open"

C6_Witness ==
  /\ pc = "wr_settle"
  /\ page.state = "closed"
  /\ opResult.kind = "raise"
  /\ opResult.err.kind = "invalidPrice"

\* C7: the pages handed out since the last cleanup() call or disconnect come
\* from exactly one browser launch made since then: createPage calls with no
\* cleanup() or disconnect between them launch once in total, and the first
\* createPage after a cleanup() launches exactly once.
C7_OneLaunchPerSession ==
  pagesSinceCleanup => launchesSinceCleanup = 1

\* C8: a cleanup() whose context close raised has still called close() on the
\* browser, and cleanup() does not raise.
C8_ContextFailureStillClosesBrowser ==
  /\ ~lastCleanup.raised
  /\ (lastCleanup.contextCloseThrew /\ lastCleanup.browserBefore # 0)
       => lastCleanup.browserCloseCalled

C10_PageCreationRetriedOnce ==
  /\ cp.attempts <= 2
  /\ pc = "cp_exit"
       => /\ cp.firstFailed => cp.site = 2
          /\ cp.attempts = 2 <=> (cp.firstFailed /\ cp.rebuilt)
          /\ cp.attempts = 2 => (cp.retryCtx = Len(contexts) /\ cp.retryCtx > cp.firstCtx)
          /\ cp.retryFailed => (cp.outcome = "raise" /\ cp.error = "newPage")
          /\ (cp.firstFailed /\ ~cp.rebuilt) => cp.outcome = "raise"

C10_Witness ==
  /\ pc = "cp_exit"
  /\ cp.firstFailed
  /\ cp.retryFailed
  /\ cp.attempts = 2
  /\ cp.outcome = "raise"

\* C11: while invocations overlap on one instance, at most one browser
\* launched by the instance is open at any time (no second launch while an
\* earlier browser is unclosed, no orphan), and while an invocation uses its
\* page the session that page belongs to is neither closed nor replaced.
C11_SingleSessionUnderInterleaving ==
  /\ Cardinality({b \in DOMAIN browsers : browsers[b].open}) <= 1
  /\ \A p \in Invocations :
       inv[p].pc \in {"use", "close"}
         => /\ ContextUsable(inv[p].page)
            /\ context = inv[p].page

\* C12: a batch attempt under sequential = false ends as one under
\* sequential = true does: in sequential mode every configured source is
\* visited, in order, whatever the sources give, the prices map holds the
\* fieldNames of the sources that succeeded, and it is returned when one
\* succeeded; the same is required of the attempt that asked for parallel mode.
C12_ParallelFallsBackToSequential ==
  pc = "pm_finally"
    => /\ pm.visited = [j \in 1..Len(multiSourceConfig.sources) |-> j]
       /\ DOMAIN pm.prices = {multiSourceConfig.sources[j].fieldName : j \in pm.succeeded}
       /\ pm.succeeded # {} => pm.pending = Returned(MultiValue(pm.prices))

\* C13: between two steps of the loop over the sources, the inter-source delay
\* has been applied once after every finished source but the last of the
\* list, whether that source succeeded or failed, and never after the last.
C13_DelayBetweenEverySourcePair ==
  (pc \in {"pm_loop", "pm_after", "pm_finally"} /\ multiSourceConfig.sequential)
    => LET n == Len(multiSourceConfig.sources)
           finished == IF pm.i < n - 1 THEN pm.i ELSE n - 1
       IN pm.delays = [j \in 1..finished |-> j]

\* C14: in a batch attempt the sources are started in list order, each once,
\* none skipped or revisited; a source is started only when every source
\* before it has finished, one source is in flight at a time, and when the
\* loop has ended every source of the list has been processed.
C14_SourcesInOrderOnce ==
  LET n == Len(multiSourceConfig.sources)
  IN /\ pm.visited = [j \in 1..Len(pm.visited) |-> j]
     /\ Len(pm.visited) <= n
     /\ pc \in {"pm_loop", "pm_navigate"} => pm.i = Len(pm.visited)
     /\ pc = "pm_extract" => pm.i + 1 = Len(pm.visited)
     /\ pc \in {"pm_after", "pm_finally"} => (pm.i = n /\ Len(pm.visited) = n)

C14_Witness ==
  /\ pc = "pm_finally"
  /\ pm.visited = <<1, 2, 3>>
  /\ pm.succeeded = {2}

\* C15: a batch attempt creates at most one page; while it iterates its
\* sources and until it closes the page it has created exactly one, that
\* page is open, and every source of the attempt was navigated on it.
C15_OnePagePerBatch ==
  /\ wr.fn = "performMultiSourceScrape" => page.n <= 1
  /\ pc \in {"pm_loop", "pm_navigate", "pm_extract", "pm_after", "pm_finally"}
       => /\ page.n = 1
          /\ page.state = "open"
          /\ pagesOpen = 1
          /\ \A j \in 1..Len(pm.pages) : pm.pages[j] = 1

C15_Witness ==
  /\ pc = "pm_finally"
  /\ wr.calls = 2
  /\ pm.pages = <<1, 1, 1>>
  /\ page.n = 1

\* C16: scrapeMultiSource with no configuration or with an empty source list
\* raises a configuration error at once: the wrapped batch is never invoked,
\* no delay is taken, createPage is not entered and no page is opened.
C16_MissingSourcesRaisedImmediately ==
  (call = "scrapeMultiSource" /\ (~multiSourceConfig.set \/ multiSourceConfig.sources = <<>>))
    => /\ wr.calls = 0
       /\ wr.events = <<>>
       /\ ~cp.active
       /\ page = NoPage
       /\ pc = "done" => (callResult.kind = "raise" /\ callResult.err.kind = "notConfigured")

C18_DelayBetweenAttemptsOnly ==
  /\ \A j \in 1..Len(wr.events) :
       wr.events[j] = IF j % 2 = 1 THEN "call" ELSE "delay"
  /\ \A j \in 1..Len(wr.events) :
       wr.events[j] = "delay" => wr.log[j \div 2].kind = "raise"
  /\ RetryEnded
       => /\ wr.events # <<>> => wr.events[Len(wr.events)] = "call"
          /\ Len(wr.events) = IF wr.calls = 0 THEN 0 ELSE 2 * wr.calls - 1
  /\ (pc = "wr_call" /\ wr.i > 0)
       => /\ wr.lastDelay \in Int
          /\ wr.delayMs <= wr.lastDelay
          /\ wr.lastDelay <= 2 * wr.delayMs

C18_Witness ==
  /\ pc = "done"
  /\ call = "withRetry"
  /\ wr.events = <<"call", "delay", "call">>
  /\ wr.outcome.kind = "raise"
  /\ wr.lastDelay > wr.delayMs

\* C19: an insertRecord or insertBatchRecords call never raises to its
\* caller; it returns false when the store reported an error or the client
\* call threw, and true only when the store reported no error.
C19_InsertNeverRaises ==
  lastInsert.kind # "none"
    => /\ lastInsert.result.kind = "return"
       /\ lastInsert.result \in {Returned(BoolValue(TRUE)), Returned(BoolValue(FALSE))}
       /\ lastInsert.store \in {"error", "throw"}
            => lastInsert.result = Returned(BoolValue(FALSE))
       /\ lastInsert.result = Returned(BoolValue(TRUE)) => lastInsert.store = "ok"
       /\ pc = "done" => callResult.kind = "return"

C19_Witness ==
  /\ pc = "done"
  /\ lastInsert.kind = "batch"
  /\ lastInsert.store = "throw"
  /\ callResult = Returned(BoolValue(FALSE))

\* C20: what scrapeAndSave or scrapeMultiSourceAndSave reports for a scrape
\* that succeeded and a save that failed differs from what it reports for a
\* scrape that failed.
C20_SaveFailureReportedDistinctly ==
  (pc = "done" /\ call \in {"scrapeAndSave", "scrapeMultiSourceAndSave"})
    => LET scraped == wr.outcome.kind = "return" /\ wr.outcome.val.tag # "null"
           saved == inserts = 1 /\ lastInsert.result = Returned(BoolValue(TRUE))
       IN /\ ~scraped => callResult = FailedScrapeReport
          /\ (scraped /\ ~saved) => callResult # FailedScrapeReport

C24_NonFiniteOrNonPositiveIsParseFailure ==
  /\ (opResult.kind = "return" /\ opResult.val.tag = "single")
       => /\ opResult.val.price > 0
          /\ opResult.val.price < Infinity
  /\ (opResult.kind = "return" /\ opResult.val.tag = "multi")
       => \A f \in DOMAIN opResult.val.prices :
            /\ opResult.val.prices[f] > 0
            /\ opResult.val.prices[f] < Infinity

\* C26: the flow leaves the row's creation time to the store: no record handed
\* to insertRecord carries a created_at of the client.
C26_NoClientCreatedAt ==
  lastInsert.kind \in {"single", "multi"} => ~lastInsert.created_at

\* C27: when chromium.launch or browser.newContext fails inside createPage,
\* the error leaves createPage and that createPage call makes no further
\* launch.
C27_LaunchFailurePropagates ==
  /\ cp.initFailed # 0
       => /\ pc = "cp_exit"
          /\ cp.initCalls = cp.initFailed
          /\ cp.outcome = "raise"
          /\ cp.error \in {"launch", "newContext"}
  /\ (pc = "cp_exit" /\ cp.error \in {"launch", "newContext"})
       => /\ cp.outcome = "raise"
          /\ cp.initFailed = cp.initCalls

C27_Witness ==
  /\ pc = "cp_exit"
  /\ cp.site = 2
  /\ cp.initFailed = 1
  /\ cp.error = "launch"
  /\ cp.outcome = "raise"

\* C28: in every flow each successful navigation is followed by a pause of
\* 1000 to 3000 ms before extraction starts.
C28_DelayAfterEveryNavigation ==
  /\ pc \in {"ps_analyze", "ps_find", "ps_parse"}
       => ps.navDelay \in NavDelayMin..NavDelayMax
  /\ pc = "pm_extract" => pm.navDelay \in NavDelayMin..NavDelayMax

\* C23: getElementText gives back a sentinel when the element is absent; it
\* never raises.
C23_ReadTextNeverRaises ==
  pm.read # "raise"

\* C29: a single-source attempt moves Idle -> PageOpened -> Navigated or
\* NavigationFailed -> AnalyzedContent -> ElementFound or ElementMissing ->
\* PriceParsed or ParseFailed -> Done or Failed, in that order; it ends in
\* exactly one of Done and Failed, and what the content analysis found never
\* changes which.
StageEdges ==
  { <<"Idle", "PageOpened">>, <<"Idle", "Failed">>,
    <<"PageOpened", "Navigated">>, <<"PageOpened", "NavigationFailed">>,
    <<"Navigated", "AnalyzedContent">>,
    <<"AnalyzedContent", "ElementFound">>, <<"AnalyzedContent", "ElementMissing">>,
    <<"ElementFound", "PriceParsed">>, <<"ElementFound", "ParseFailed">>,
    <<"PriceParsed", "Done">>,
    <<"NavigationFailed", "Failed">>, <<"ElementMissing", "Failed">>,
    <<"ParseFailed", "Failed">>,
    <<"Done", "Idle">>, <<"Failed", "Idle">> }

C29_SingleSourceStateMachine ==
  /\ [][ps'.stage # ps.stage => <<ps.stage, ps'.stage>> \in StageEdges]_vars
  /\ []((pc = "wr_settle" /\ wr.fn = "performScrape")
          => /\ ps.stage \in {"Done", "Failed"}
             /\ ps.stage = "Done" <=> opResult.kind = "return"
             /\ (ps.analysis # "none" /\ page.n >= 1)
                  => (ps.stage = "Done" <=> ps.found /\ ~GoldPriceInvalid(ps.price)))

C29_Witness ==
  /\ pc = "wr_settle"
  /\ wr.fn = "performScrape"
  /\ ps.stage = "Done"
  /\ ps.analysis = "failed"
  /\ ps.price > 0

\* ------------------------------------------ the selector search on a fixture
\* Everything of the scraper that the selector search and the Application
\* leave alone.
scraperVars ==
  <<pc, call, ncalls, callResult, retryCount, multiSourceConfig, browser, context,
    browsers, contexts, ndisconnects, page, pagesOpen, lastCleanup, cleanClosed,
    cleanupReturned, launchesSinceCleanup, pagesSinceCleanup, cp, wr, script, opResult,
    ps, pm, lastInsert, inserts, inv>>

\* const selectorStrategies = [...]: the list findPriceElementSmart walks,
\* as positions among the selectors of a fixture; it has one entry
selectorStrategies == [j \in 1..NumStrategies |-> j]

\* what a page gives for one selector: waitForSelector times out ("absent")
\* or resolves to null, textContent raises, or the element has a text
ElementOutcomes ==
  {[state |-> s, text |-> <<>>] : s \in {"absent", "null", "raises"}}
    \cup {[state |-> "text", text |-> t] : t \in PriceTexts}

\* a page fixture: the outcome of each candidate selector, the primary first
Fixtures ==
  UNION {[1..n -> ElementOutcomes] : n \in NumStrategies..MaxPageSelectors}

\* if (!element) continue; if (!(text && text.trim())) continue; a throw is
\* caught inside the loop
Yields(c) == c.state = "text" /\ Trim(c.text) # <<>>

\* one pass of the for loop of findPriceElementSmart
FxTry ==
  /\ fx.phase = "search"
  /\ fx.k <= Len(selectorStrategies)
  /\ LET sel == selectorStrategies[fx.k]
         c == fx.page[sel]
     IN IF Yields(c)
          THEN fx' = [fx EXCEPT !.phase = "found", !.tried = Append(@, sel),
                                !.text = Trim(c.text), !.selector = sel]
          ELSE fx' = [fx EXCEPT !.k = @ + 1, !.tried = Append(@, sel)]
  /\ UNCHANGED <<scraperVars, app>>

\* return null after the loop; performScrape throws on it
FxNotFound ==
  /\ fx.phase = "search"
  /\ fx.k > Len(selectorStrategies)
  /\ fx' = [fx EXCEPT !.phase = "failed", !.result = Raised(Err("noElement", 1))]
  /\ UNCHANGED <<scraperVars, app>>

\* parsePrice(priceResult.text), the price check and the observation
FxParse ==
  /\ fx.phase = "found"
  /\ LET price == parsePrice(fx.text)
     IN IF GoldPriceInvalid(price)
          THEN fx' = [fx EXCEPT !.phase = "failed",
                                !.result = Raised(Err("invalidPrice", 1))]
          ELSE fx' = [fx EXCEPT !.phase = "done", !.currency = "USD",
                                !.result = Returned(SingleValue(price))]
  /\ UNCHANGED <<scraperVars, app>>

InitFind ==
  /\ InitScraper
  /\ retryCount = MaxRetries
  /\ app = NoApp
  /\ \E pg \in Fixtures :
       fx = [NoFixture EXCEPT !.phase = "search", !.page = pg, !.k = 1]

NextFind == FxTry \/ FxNotFound \/ FxParse

SpecFind == InitFind /\ [][NextFind]_vars

\* C22: the candidate selectors of a page are tried in list order; the result
\* is the trimmed text of the first one that yields non-empty text, an absent,
\* empty or raising candidate never stopping the later ones, and 'not found'
\* is reported only when none yields text; with the primary selector absent
\* and a fallback matching "2,050.10" the attempt gives price 2050.10, USD.
C22_FirstYieldingCandidateWins ==
  LET n == Len(fx.page)
      yielding == {j \in 1..n : Yields(fx.page[j])}
  IN /\ \A j \in 1..Len(fx.tried) : fx.tried[j] = j
     /\ fx.phase \in {"found", "done"}
          => /\ fx.selector \in yielding
             /\ \A j \in yielding : fx.selector <= j
             /\ fx.text = Trim(fx.page[fx.selector].text)
     /\ (fx.phase = "failed" /\ fx.result.err.kind = "noElement") => yielding = {}
     /\ (fx.phase \in {"done", "failed"} /\ n >= 2
           /\ fx.page[1].state = "absent"
           /\ fx.page[2] = [state |-> "text",
                            text |-> <<" ", "2", ",", "0", "5", "0", ".", "1", "0", " ">>])
          => /\ fx.result = Returned(SingleValue(205010))
             /\ fx.currency = "USD"

\* ------------------------------------------ Application and TaskScheduler
\* testConnection(): true when the select gave no error; an error of the
\* store and an exception of the client both give false
testConnection(store) == store = "ok"

\* variant: start-up goes on whatever testConnection returned
StartupAllowed_Always(dbConnected) == TRUE

\* if (!dbConnected) throw, in Application.initialize
StartupAllowed(dbConnected) == dbConnected = "true"

\* variant: the immediate flag is ignored
RunsAtRegistration_Never(immediate) == 0

\* if (config.immediate) { wrappedTask(); }
RunsAtRegistration(immediate) == IF immediate = "true" THEN 1 ELSE 0

\* addTask(taskName, config, taskFunction): an invalid cron expression
\* returns false before anything is touched; otherwise the task replaces the
\* one of that name, is not started, and runs once if immediate is set
AddTaskEffect(tasks, name, valid, immediate) ==
  IF ~valid
    THEN tasks
    ELSE [tasks EXCEPT ![name] = [NoTask EXCEPT !.present = TRUE,
                                                !.immediate = immediate,
                                                !.immediateRuns = RunsAtRegistration(immediate)]]

\* variant: the task of that name is replaced without being stopped
ReplacedStillActive_NotStopped(old) == old.present /\ old.started

\* if (this.tasks.has(taskName)) { this.stopTask(taskName); }: the cron task
\* that is replaced has been stopped
ReplacedStillActive(old) == FALSE

\* addTask as it acts on the scheduler and on the invocations in flight: the
\* immediate run is started and not awaited
AddTask(a, name, valid, immediate) ==
  IF ~valid
    THEN a
    ELSE [a EXCEPT !.tasks = AddTaskEffect(@, name, valid, immediate),
                   !.inflight[name] = @ + RunsAtRegistration(immediate),
                   !.orphans = @ + (IF ReplacedStillActive(a.tasks[name]) THEN 1 ELSE 0),
                   !.replacedStarted = @ \/ (a.tasks[name].present
                                               /\ a.tasks[name].started)]

\* variant: the error of the task function leaves the wrapper
WrappedTaskCatch_Rethrow(outcome) == IF outcome = "raise" THEN "propagated" ELSE "returned"

\* wrappedTask: try { await taskFunction() } catch { logger.error }
WrappedTaskCatch(outcome) == IF outcome = "raise" THEN "logged" ELSE "returned"

\* variant: cleanup() leaves the registry as it is
SchedulerCleanupEffect_Keep(tasks) == tasks

\* TaskScheduler.cleanup(): task.stop() for every task, then tasks.clear()
SchedulerCleanupEffect(tasks) == [t \in TaskNames |-> NoTask]

\* startAllTasks()
StartAllEffect(tasks) ==
  [t \in TaskNames |-> IF tasks[t].present THEN [tasks[t] EXCEPT !.started = TRUE]
                                           ELSE tasks[t]]

\* initialize() up to `await this.goldScraper.testDatabaseConnection()`
AppTestConnection ==
  /\ app.phase = "constructed"
  /\ \E store \in StoreOutcomes :
       app' = [app EXCEPT !.phase = "tested",
                          !.dbConnected = IF testConnection(store) THEN "true"
                                                                   ELSE "false"]
  /\ UNCHANGED <<scraperVars, fx>>

\* initialize() after the connection test: throw and process.exit(1), or
\* setupScheduledTasks() with the cron expression of the environment
AppInitialize ==
  /\ app.phase = "tested"
  /\ IF StartupAllowed(app.dbConnected)
       THEN \E valid \in BOOLEAN :
              LET added == AddTask(app, ScrapeTask, valid, "true")
              IN app' = [added EXCEPT !.phase = "running",
                                      !.tasks = StartAllEffect(@),
                                      !.scrapeRuns = @ + (IF valid
                                                            THEN added.tasks[ScrapeTask].immediateRuns
                                                            ELSE 0)]
       ELSE app' = [app EXCEPT !.phase = "exited", !.exitCode = 1]
  /\ UNCHANGED <<scraperVars, fx>>

\* addTask called by any other code of the process
SchedAddTask ==
  /\ app.phase \in {"constructed", "tested", "running"}
  /\ \E valid \in BOOLEAN, immediate \in {"absent", "false", "true"} :
       /\ app.inflight["other"] + RunsAtRegistration(immediate) <= MaxInFlight
       /\ app' = AddTask(app, "other", valid, immediate)
  /\ UNCHANGED <<scraperVars, fx>>

\* startTask(taskName)
SchedStartTask ==
  /\ app.phase \in {"constructed", "tested", "running"}
  /\ \E n \in TaskNames :
       /\ app.tasks[n].present
       /\ app' = [app EXCEPT !.tasks[n].started = TRUE]
  /\ UNCHANGED <<scraperVars, fx>>

\* stopTask(taskName)
SchedStopTask ==
  /\ app.phase \in {"constructed", "tested", "running"}
  /\ \E n \in TaskNames :
       /\ app.tasks[n].present
       /\ app' = [app EXCEPT !.tasks[n].started = FALSE]
  /\ UNCHANGED <<scraperVars, fx>>

\* removeTask(taskName)
SchedRemoveTask ==
  /\ app.phase \in {"constructed", "tested", "running"}
  /\ \E n \in TaskNames :
       /\ app.tasks[n].present
       /\ app' = [app EXCEPT !.tasks[n] = NoTask]
  /\ UNCHANGED <<scraperVars, fx>>

\* a tick of node-cron: the wrapped task of a started task is invoked
CronTick ==
  /\ app.phase \in {"constructed", "tested", "running"}
  /\ app.ticks < MaxTicks
  /\ \E n \in TaskNames :
       /\ app.tasks[n].present
       /\ app.tasks[n].started
       /\ app.inflight[n] < MaxInFlight
       /\ app' = [app EXCEPT !.tasks[n].tickRuns = @ + 1,
                             !.tasks[n].ticksAfterFailure =
                               IF app.tasks[n].hasFailed THEN @ + 1 ELSE @,
                             !.inflight[n] = @ + 1,
                             !.ticks = @ + 1,
                             !.scrapeRuns = IF n = ScrapeTask THEN @ + 1 ELSE @]
  /\ UNCHANGED <<scraperVars, fx>>

\* SIGINT or SIGTERM: taskScheduler.cleanup() and process.exit(0)
AppShutdown ==
  /\ app.phase = "running"
  /\ app' = [app EXCEPT !.phase = "exited", !.exitCode = 0,
                        !.tasks = SchedulerCleanupEffect(@)]
  /\ UNCHANGED <<scraperVars, fx>>

\* an invocation of a wrapped task ends: the task function returned or raised
TaskSettle ==
  /\ app.phase \in {"constructed", "tested", "running"}
  /\ \E n \in TaskNames, outcome \in {"ok", "raise"} :
       /\ app.inflight[n] > 0
       /\ app' = [app EXCEPT !.inflight[n] = @ - 1,
                             !.tasks[n].hasFailed =
                               @ \/ (outcome = "raise" /\ app.tasks[n].present),
                             !.escaped = IF WrappedTaskCatch(outcome) = "propagated"
                                           THEN 1 ELSE @]
  /\ UNCHANGED <<scraperVars, fx>>

InitApp ==
  /\ InitScraper
  /\ retryCount = MaxRetries
  /\ fx = NoFixture
  /\ app = [NoApp EXCEPT !.phase = "constructed"]

NextApp ==
  \/ AppTestConnection
  \/ AppInitialize
  \/ SchedAddTask
  \/ SchedStartTask
  \/ SchedStopTask
  \/ SchedRemoveTask
  \/ CronTick
  \/ AppShutdown
  \/ TaskSettle

SpecApp == InitApp /\ [][NextApp]_vars

\* C25: the scrape task is registered and run, the immediate run included,
\* only after testConnection has returned true; when it returned false no
\* scrape task is ever added or invoked and start-up ends with exit code 1.
C25_StartupGate ==
  LET t == app.tasks[ScrapeTask]
  IN /\ (t.present \/ app.scrapeRuns > 0) => app.dbConnected = "true"
     /\ app.dbConnected = "false"
          => /\ ~t.present
             /\ app.scrapeRuns = 0
             /\ app.phase \in {"tested", "exited"}
             /\ app.phase = "exited" => app.exitCode = 1

C25_Witness ==
  /\ app.dbConnected = "false"
  /\ app.phase = "exited"
  /\ app.exitCode = 1
  /\ app.scrapeRuns = 0

\* C30: a task registered with immediate = true has had its function invoked
\* exactly once by addTask, apart from its cron invocations; with immediate
\* absent or false addTask invokes nothing; and every other invocation is a
\* cron tick of a task that is started.
C30_ImmediateRunsOnceAtRegistration ==
  /\ [](\A n \in TaskNames :
          app.tasks[n].present
            => app.tasks[n].immediateRuns
                 = IF app.tasks[n].immediate = "true" THEN 1 ELSE 0)
  /\ [][\A n \in TaskNames :
          app'.tasks[n].tickRuns > app.tasks[n].tickRuns
            => /\ app.tasks[n].present
               /\ app.tasks[n].started
               /\ app'.tasks[n].immediateRuns = app.tasks[n].immediateRuns]_vars

C30_Witness ==
  /\ app.tasks["other"].present
  /\ app.tasks["other"].immediate = "true"
  /\ app.tasks["other"].immediateRuns = 1
  /\ app.tasks["other"].tickRuns = 1

\* C32: when this.browser reports disconnected as a page is requested,
\* createPage has called cleanup() and launched a new session before it
\* creates a page, and the page it returns is one of the current context,
\* which is open on an open, connected browser.
C32_DisconnectedSessionRebuilt ==
  /\ (cp.wasDisconnected /\ cp.attempts >= 1)
       => /\ cp.cleanups >= 1
          /\ cp.launches >= 1
          /\ cp.firstCtx > cp.ctxCount
  /\ (pc = "cp_exit" /\ cp.outcome = "return")
       => /\ page.ctx = context
          /\ ContextUsable(page.ctx)

C32_Witness ==
  /\ pc = "cp_exit"
  /\ cp.wasDisconnected
  /\ cp.outcome = "return"
  /\ cp.attempts = 1
  /\ cp.launches = 1

\* C31: once SIGINT or SIGTERM has been handled every task has been stopped
\* and the registry is empty, and the scheduler starts no invocation
\* afterwards; invocations in flight are not asked to have ended.
C31_ShutdownStopsScheduler ==
  /\ []((app.phase = "exited" /\ app.exitCode = 0)
          => \A n \in TaskNames : ~app.tasks[n].present /\ ~app.tasks[n].started)
  /\ [][app.phase = "exited"
          => /\ app'.scrapeRuns = app.scrapeRuns
             /\ \A n \in TaskNames : app'.inflight[n] <= app.inflight[n]]_vars

C31_Witness ==
  /\ app.phase = "exited"
  /\ app.exitCode = 0
  /\ app.scrapeRuns = 2
  /\ app.inflight[ScrapeTask] = 1
  /\ ~app.tasks[ScrapeTask].present

\* C33: at most one invocation of the task function registered under a name
\* is in flight at any time, the immediate run and the cron ticks included.
C33_InvocationsSerialized ==
  \A n \in TaskNames : app.inflight[n] <= 1

\* C35: an error raised by a task function never leaves the wrapper, and the
\* end of an invocation leaves the task registered and scheduled as it was,
\* so later cron ticks invoke it again.
C35_TaskErrorContained ==
  /\ [](app.escaped = 0)
  /\ [][\A n \in TaskNames :
          app'.inflight[n] < app.inflight[n]
            => /\ app'.tasks[n].present = app.tasks[n].present
               /\ app'.tasks[n].started = app.tasks[n].started]_vars

C35_Witness ==
  /\ app.tasks[ScrapeTask].present
  /\ app.tasks[ScrapeTask].started
  /\ app.tasks[ScrapeTask].hasFailed
  /\ app.tasks[ScrapeTask].ticksAfterFailure = 1
  /\ app.inflight[ScrapeTask] = 1

C34_AnySucceededSetIsSaved ==
  (pc = "done" /\ call = "scrapeMultiSourceAndSave"
     /\ wr.outcome.kind = "return" /\ wr.outcome.val.tag = "multi")
    => /\ inserts = 1
       /\ lastInsert.kind = "multi"
       /\ DOMAIN lastInsert.fields = DOMAIN wr.outcome.val.prices
       /\ lastInsert.store = "ok" => callResult = Returned(BoolValue(TRUE))

\* C36: scrapeAndSave and scrapeMultiSourceAndSave never raise; they return
\* true exactly when the scrape gave an observation and the insert returned
\* true, and false otherwise.
C36_ScrapeAndSaveReturnsBoolean ==
  (pc = "done" /\ call \in {"scrapeAndSave", "scrapeMultiSourceAndSave"})
    => LET scraped == wr.outcome.kind = "return" /\ wr.outcome.val.tag # "null"
           saved == inserts = 1 /\ lastInsert.result = Returned(BoolValue(TRUE))
       IN /\ callResult \in {Returned(BoolValue(TRUE)), Returned(BoolValue(FALSE))}
          /\ callResult = Returned(BoolValue(TRUE)) <=> (scraped /\ saved)

C36_Witness ==
  /\ pc = "done"
  /\ call = "scrapeMultiSourceAndSave"
  /\ wr.outcome.kind = "return"
  /\ wr.outcome.val.tag = "multi"
  /\ inserts = 0
  /\ callResult = Returned(BoolValue(FALSE))

\* C37: withRetry ends with null exactly when maxRetries is below 1, and then
\* without having invoked the operation and without raising; with
\* maxRetries >= 1 it ends with the result of the operation or a raised error.
C37_NullOnlyWithoutAttempts ==
  RetryEnded
    => /\ wr.outcome = Returned(NullValue) <=> wr.maxRetries < 1
       /\ wr.maxRetries < 1 => (wr.calls = 0 /\ wr.log = <<>>)
       /\ wr.maxRetries >= 1 => (wr.calls >= 1 /\ wr.outcome = wr.log[Len(wr.log)])

C37_Witness ==
  /\ pc = "done"
  /\ call = "withRetry"
  /\ wr.maxRetries = -1
  /\ wr.calls = 0
  /\ callResult = Returned(NullValue)

\* C38: an invocation of scrapeAndSave or scrapeMultiSourceAndSave makes at
\* most one insert call: none while attempts are under way, none when the
\* scrape raised or gave null, and no second one after an insert that failed.
C38_AtMostOneInsert ==
  call \in {"scrapeAndSave", "scrapeMultiSourceAndSave"}
    => /\ inserts <= 1
       /\ pc # "done" => inserts = 0
       /\ (pc = "done" /\ (wr.outcome.kind = "raise" \/ wr.outcome.val.tag = "null"))
            => inserts = 0

C38_Witness ==
  /\ pc = "done"
  /\ call = "scrapeAndSave"
  /\ inserts = 1
  /\ lastInsert.store = "error"
  /\ Len(wr.log) = 2
  /\ callResult = Returned(BoolValue(FALSE))

\* ------------------------------------------------------------- termination
\* scrapeAndSave() as the first invocation of a scraper
LiveScrapeAndSave ==
  /\ ncalls = 0
  /\ CallScrapeAndSave

\* scrapeMultiSourceAndSave() as the first invocation of a scraper
LiveScrapeMultiSourceAndSave ==
  /\ ncalls = 0
  /\ CallScrapeMultiSourceAndSave

\* the two scrape flows from the call to its return
NextLive ==
  \/ LiveScrapeAndSave
  \/ LiveScrapeMultiSourceAndSave
  \/ WithRetryLoop
  \/ WithRetryDelay
  \/ WithRetryCall
  \/ WithRetrySettle
  \/ CreatePageEnter
  \/ InitBrowser
  \/ CreatePageTry
  \/ CreatePageCatch
  \/ CreatePageRetry
  \/ CreatePageExit
  \/ PsNavigate
  \/ PsAnalyze
  \/ PsFind
  \/ PsParse
  \/ PsCatch
  \/ PsFinally
  \/ ScrapeAndSaveFinish
  \/ PmStart
  \/ PmLoop
  \/ PmNavigate
  \/ PmExtract
  \/ PmAfter
  \/ PmFinally
  \/ ScrapeMultiSourceAndSaveFinish
  \/ Return

\* retryCount: config.retryCount ?? 2, the default of GoldPriceScraper
DefaultRetryCount == 2

\* a scraper built with the default retryCount or a smaller one
InitLive ==
  /\ Init
  /\ retryCount <= DefaultRetryCount

\* every await of the flows settles: a step of a flow that is enabled is
\* taken
SpecLive == InitLive /\ [][NextLive]_vars /\ WF_vars(NextLive)

\* C40: with every browser operation and store call returning or raising,
\* each scrape() and scrapeMultiSource() call ends, after at most retryCount
\* attempts, and a scrapeMultiSource() call navigates at most retryCount
\* times the number of configured sources.
C40_ScrapeTerminatesWithinRetryCount ==
  /\ [](wr.fn \in {"performScrape", "performMultiSourceScrape"}
          => /\ wr.calls <= retryCount
             /\ wr.navs <= retryCount * Len(multiSourceConfig.sources))
  /\ (pc = "wr_loop" /\ wr.fn \in {"performScrape", "performMultiSourceScrape"})
       ~> pc = "wr_return"

C40_Witness ==
  /\ pc = "wr_return"
  /\ wr.fn = "performMultiSourceScrape"
  /\ retryCount = DefaultRetryCount
  /\ wr.calls = retryCount
  /\ wr.navs = retryCount * Len(multiSourceConfig.sources)
  /\ wr.outcome.kind = "raise"

====
